---------------------------- MODULE Spec2Model ----------------------------
(***************************************************************************)
(* Model of DependencyVisualizer (src/main.py): the breadth-first          *)
(* dependency-graph builder build_dependency_graph_bfs and the level-wise  *)
(* tree printer print_ascii_tree.                                          *)
(*                                                                         *)
(* One build step is one call of build_dependency_graph_bfs_recursive (one *)
(* package taken from the queue); one print step is one call of            *)
(* print_ascii_tree_bfs_recursive (one whole level of the tree).           *)
(***************************************************************************)
EXTENDS Integers, Sequences, FiniteSets, TLC

(***************************************************************************)
(* Bounds of the model.                                                    *)
(***************************************************************************)
\* longest dependency list of a package in the generated manifests
MaxDeps == 2
\* largest --depth argument tried (0 .. MaxDepthArg)
MaxDepthArg == 2
\* largest number of packages whose lookup fails in one run
MaxFailures == 1

(***************************************************************************)
(* Package names.  GenPackages carry every possible manifest with          *)
(* dependency lists of at most MaxDeps names; the two remaining names      *)
(* only occur in the literal scenarios (chain, diamond).                   *)
(***************************************************************************)
Packages == {"A", "B", "C", "D", "E"}
GenPackages == {"A", "B", "C"}

\* The --package argument.  GenManifests holds every manifest over
\* GenPackages and the program never looks into a name, so a run from B or
\* C is a run from A with the names exchanged.
Roots == {"A"}

Range(s) == {s[i] : i \in DOMAIN s}

\* the key orders a Python dict over names of S with at most n keys can have
DepLists(S, n) ==
    UNION {{s \in [1..k -> S] : \A i, j \in 1..k : i # j => s[i] # s[j]} : k \in 0..n}

GenManifests ==
    {[p \in Packages |-> IF p \in GenPackages THEN f[p] ELSE <<>>] :
        f \in [GenPackages -> DepLists(GenPackages, MaxDeps)]}

\* A -> B -> C -> D -> E
ChainManifest ==
    [p \in Packages |->
        CASE p = "A" -> <<"B">>
          [] p = "B" -> <<"C">>
          [] p = "C" -> <<"D">>
          [] p = "D" -> <<"E">>
          [] OTHER   -> <<>>]

\* {A:[B,C], B:[D], C:[D], D:[]}
DiamondManifest ==
    [p \in Packages |->
        CASE p = "A" -> <<"B", "C">>
          [] p = "B" -> <<"D">>
          [] p = "C" -> <<"D">>
          [] OTHER   -> <<>>]

Manifests == GenManifests \cup {ChainManifest, DiamondManifest}

(***************************************************************************)
(* Output glyphs and labels.                                               *)
(***************************************************************************)
\* the terminal connector (U+2514 U+2500 U+2500 and a space), in ASCII
LastConnector == "+-- "
\* the branch connector (U+251C U+2500 U+2500 and a space), in ASCII
TeeConnector == "|-- "
\* new_prefix = prefix + four spaces
PrefixUnit == 4
DefaultVersion == "1.0.0"
UnknownVersion == "unknown"
Unexpanded == "(unexpanded)"

VARIABLES
    source,             \* the manifest source: package -> ordered dependency names
    failing,            \* packages whose lookup fails (absent from file / registry error)
    args,               \* [package, depth, test_mode]
    pc,                 \* "init", "build", "built", "print", "done"
    dependency_graph,   \* self.dependency_graph: key -> [version, dependencies]
    visited,            \* self.visited
    queue,              \* the deque of <<package, depth>> passed down the recursion
    out,                \* diagnostics printed by the build, in order
    dequeued,           \* package -> number of times it was taken from the queue
    fetched,            \* package -> number of manifest lookups
    enqueued,           \* package -> number of times it was put on the queue
    parent,             \* package -> the package whose expansion queued it
    builds,             \* number of calls of build_dependency_graph_bfs so far
    rqueue,             \* print: the queue of the current level
    prefix,             \* print: number of spaces of the current prefix
    rvisited,           \* print: the visited set shared by the levels
    lines               \* print: the lines printed so far

vars == <<source, failing, args, pc, dependency_graph, visited, queue, out,
          dequeued, fetched, enqueued, parent, builds, rqueue, prefix, rvisited, lines>>

env == <<source, failing, args>>
buildvars == <<dependency_graph, visited, queue, out, dequeued, fetched, enqueued,
               parent, builds>>
printvars == <<rqueue, prefix, rvisited, lines>>

Zero == [p \in Packages |-> 0]
Inc(f, p) == [f EXCEPT ![p] = @ + 1]

(***************************************************************************)
(* __init__: an empty graph and an empty visited set.                      *)
(***************************************************************************)
Init ==
    /\ source \in Manifests
    /\ failing \in {S \in SUBSET GenPackages : Cardinality(S) <= MaxFailures}
    /\ args \in [package : Roots, depth : 0..MaxDepthArg, test_mode : BOOLEAN]
    \* a package whose lookup fails has no manifest that could be read
    /\ \A p \in failing : source[p] = <<>>
    /\ pc = "init"
    /\ dependency_graph = <<>>
    /\ visited = {}
    /\ queue = <<>>
    /\ out = <<>>
    /\ dequeued = Zero
    /\ fetched = Zero
    /\ enqueued = Zero
    /\ parent = <<>>
    /\ builds = 0
    /\ rqueue = <<>>
    /\ prefix = 0
    /\ rvisited = {}
    /\ lines = <<>>

(***************************************************************************)
(* The manifest source.  A lookup returns [ok, version, dependencies];     *)
(* ok = FALSE stands for a raised exception.                               *)
(***************************************************************************)

\* get_package_info_from_npm: any failure is re-raised as an exception
get_package_info_from_npm(package_name) ==
    IF package_name \in failing
    THEN [ok |-> FALSE, version |-> UnknownVersion, dependencies |-> <<>>]
    ELSE [ok |-> TRUE, version |-> DefaultVersion,
          dependencies |-> source[package_name]]

\* get_package_info_from_file: a name absent from the file gives the basic
\* information (version 'unknown', no dependencies) instead of an error
get_package_info_from_file(package_name) ==
    IF package_name \in failing
    THEN [ok |-> TRUE, version |-> UnknownVersion, dependencies |-> <<>>]
    ELSE [ok |-> TRUE, version |-> DefaultVersion,
          dependencies |-> source[package_name]]

get_package_info(package_name) ==
    IF args.test_mode
    THEN get_package_info_from_file(package_name)
    ELSE get_package_info_from_npm(package_name)

\* the depth test off by one: depth >= max_depth
DepthExceededOffByOne(depth, max_depth) == depth >= max_depth

\* line 171: if depth > max_depth
DepthExceeded(depth, max_depth) == depth > max_depth

\* self.dependency_graph[current_package] = {...}
StoreEntry(g, current_package, info) ==
    [p \in DOMAIN g \cup {current_package} |->
        IF p = current_package
        THEN [version |-> info.version, dependencies |-> info.dependencies]
        ELSE g[p]]

\* the test with its two names exchanged
IsCyclicPairSwapped(g, current_package, dep_name) ==
    /\ current_package \in DOMAIN g
    /\ dep_name \in Range(g[current_package].dependencies)

\* the test of line 195: dep_name is a key whose dependencies hold current_package
IsCyclicPair(g, current_package, dep_name) ==
    /\ dep_name \in DOMAIN g
    /\ current_package \in Range(g[dep_name].dependencies)

\* the loop without the test of line 200: every dependency that is not a cyclic
\* pair is queued, visited or not
RECURSIVE ProcessDepsNoVisited(_, _, _, _, _, _)
ProcessDepsNoVisited(deps, i, g, current_package, depth, st) ==
    IF i > Len(deps) THEN st
    ELSE LET dep_name == deps[i] IN
         IF /\ dep_name \in DOMAIN g
            /\ current_package \in Range(g[dep_name].dependencies)
         THEN ProcessDepsNoVisited(deps, i + 1, g, current_package, depth,
                  [st EXCEPT !.out = Append(@, [kind |-> "cycle",
                                                 package |-> current_package,
                                                 dep |-> dep_name])])
         ELSE ProcessDepsNoVisited(deps, i + 1, g, current_package, depth,
                  [st EXCEPT !.visited = @ \cup {dep_name},
                             !.queue = Append(@, <<dep_name, depth + 1>>),
                             !.enqueued = Inc(@, dep_name),
                             !.parent = (dep_name :> current_package) @@ @])

\* the loop with line 202 queueing at the depth of the current package
RECURSIVE ProcessDepsSameDepth(_, _, _, _, _, _)
ProcessDepsSameDepth(deps, i, g, current_package, depth, st) ==
    IF i > Len(deps) THEN st
    ELSE LET dep_name == deps[i] IN
         IF /\ dep_name \in DOMAIN g
            /\ current_package \in Range(g[dep_name].dependencies)
         THEN ProcessDepsSameDepth(deps, i + 1, g, current_package, depth,
                  [st EXCEPT !.out = Append(@, [kind |-> "cycle",
                                                 package |-> current_package,
                                                 dep |-> dep_name])])
         ELSE IF dep_name \notin st.visited
         THEN ProcessDepsSameDepth(deps, i + 1, g, current_package, depth,
                  [st EXCEPT !.visited = @ \cup {dep_name},
                             !.queue = Append(@, <<dep_name, depth>>),
                             !.enqueued = Inc(@, dep_name),
                             !.parent = (dep_name :> current_package) @@ @])
         ELSE ProcessDepsSameDepth(deps, i + 1, g, current_package, depth, st)

\* the for loop of lines 193-202 over dependencies[i..], threading the visited
\* set, the queue, the printed diagnostics and the enqueue counts
RECURSIVE ProcessDeps(_, _, _, _, _, _)
ProcessDeps(deps, i, g, current_package, depth, st) ==
    IF i > Len(deps) THEN st
    ELSE LET dep_name == deps[i] IN
         IF IsCyclicPair(g, current_package, dep_name)
         THEN ProcessDeps(deps, i + 1, g, current_package, depth,
                  [st EXCEPT !.out = Append(@, [kind |-> "cycle",
                                                 package |-> current_package,
                                                 dep |-> dep_name])])
         ELSE IF dep_name \notin st.visited
         THEN ProcessDeps(deps, i + 1, g, current_package, depth,
                  [st EXCEPT !.visited = @ \cup {dep_name},
                             !.queue = Append(@, <<dep_name, depth + 1>>),
                             !.enqueued = Inc(@, dep_name),
                             !.parent = (dep_name :> current_package) @@ @])
         ELSE ProcessDeps(deps, i + 1, g, current_package, depth, st)

\* the wrapper without line 213: the root is queued but not marked visited
build_dependency_graph_bfs_NoSeed ==
    /\ pc = "init"
    /\ queue' = <<<<args.package, 0>>>>
    /\ visited' = visited
    /\ enqueued' = Inc(enqueued, args.package)
    /\ parent' = (args.package :> args.package) @@ parent
    /\ builds' = builds + 1
    /\ pc' = "build"
    /\ UNCHANGED <<env, dependency_graph, out, dequeued, fetched, printvars>>

(***************************************************************************)
(* build_dependency_graph_bfs: seed the queue and the visited set.         *)
(***************************************************************************)
build_dependency_graph_bfs ==
    /\ pc = "init"
    /\ queue' = <<<<args.package, 0>>>>
    /\ visited' = visited \cup {args.package}
    /\ enqueued' = Inc(enqueued, args.package)
    /\ parent' = (args.package :> args.package) @@ parent
    /\ builds' = builds + 1
    /\ pc' = "build"
    /\ UNCHANGED <<env, dependency_graph, out, dequeued, fetched, printvars>>

(***************************************************************************)
(* build_dependency_graph_bfs_recursive, one call.                         *)
(***************************************************************************)

\* lines 165-166: the queue is empty, the recursion unwinds and the build returns
BuildReturn ==
    /\ pc = "build"
    /\ queue = <<>>
    /\ pc' = "built"
    /\ UNCHANGED <<env, buildvars, printvars>>

\* lines 169-175: depth > max_depth, warn and go on with the rest of the queue
BuildTruncate ==
    /\ pc = "build"
    /\ queue # <<>>
    /\ LET current_package == Head(queue)[1]
           depth == Head(queue)[2]
       IN /\ DepthExceeded(depth, args.depth)
          /\ queue' = Tail(queue)
          /\ dequeued' = Inc(dequeued, current_package)
          /\ out' = Append(out, [kind |-> "depth", package |-> current_package,
                                  dep |-> current_package])
    /\ UNCHANGED <<env, pc, dependency_graph, visited, fetched, enqueued, parent,
                   builds, printvars>>

\* lines 177-202: the lookup succeeds, the entry is stored, the dependencies
\* are queued
BuildExpand ==
    /\ pc = "build"
    /\ queue # <<>>
    /\ LET current_package == Head(queue)[1]
           depth == Head(queue)[2]
           package_info == get_package_info(current_package)
           g == StoreEntry(dependency_graph, current_package, package_info)
           st == ProcessDeps(package_info.dependencies, 1, g, current_package, depth,
                             [visited |-> visited, queue |-> Tail(queue),
                              out |-> out, enqueued |-> enqueued,
                              parent |-> parent])
       IN /\ ~DepthExceeded(depth, args.depth)
          /\ package_info.ok
          /\ dependency_graph' = g
          /\ visited' = st.visited
          /\ queue' = st.queue
          /\ out' = st.out
          /\ enqueued' = st.enqueued
          /\ parent' = st.parent
          /\ dequeued' = Inc(dequeued, current_package)
          /\ fetched' = Inc(fetched, current_package)
    /\ UNCHANGED <<env, pc, builds, printvars>>

\* the lookup raises and nothing catches it: the build is abandoned with the
\* rest of the queue unprocessed
BuildFailAbort ==
    /\ pc = "build"
    /\ queue # <<>>
    /\ LET current_package == Head(queue)[1]
           depth == Head(queue)[2]
           package_info == get_package_info(current_package)
       IN /\ ~DepthExceeded(depth, args.depth)
          /\ ~package_info.ok
          /\ queue' = Tail(queue)
          /\ dequeued' = Inc(dequeued, current_package)
          /\ fetched' = Inc(fetched, current_package)
    /\ pc' = "aborted"
    /\ UNCHANGED <<env, dependency_graph, visited, out, enqueued, parent, builds, printvars>>

\* lines 177-182, 204-205: the lookup raises, the error is printed and nothing
\* is stored
BuildFail ==
    /\ pc = "build"
    /\ queue # <<>>
    /\ LET current_package == Head(queue)[1]
           depth == Head(queue)[2]
           package_info == get_package_info(current_package)
       IN /\ ~DepthExceeded(depth, args.depth)
          /\ ~package_info.ok
          /\ queue' = Tail(queue)
          /\ out' = Append(out, [kind |-> "error", package |-> current_package,
                                  dep |-> current_package])
          /\ dequeued' = Inc(dequeued, current_package)
          /\ fetched' = Inc(fetched, current_package)
    /\ UNCHANGED <<env, pc, dependency_graph, visited, enqueued, parent, builds, printvars>>

(***************************************************************************)
(* print_ascii_tree and print_ascii_tree_bfs_recursive.                    *)
(***************************************************************************)

\* the connector of the entry at 0-based position i of a level of the given size
Connector(i, current_level_size) ==
    IF i = current_level_size - 1 THEN LastConnector ELSE TeeConnector

\* lines 339-341: the dependencies of a printed package that are not yet
\* visited go to the queue of the next level
RECURSIVE AppendUnvisited(_, _, _, _)
AppendUnvisited(deps, j, seen, next) ==
    IF j > Len(deps) THEN next
    ELSE AppendUnvisited(deps, j + 1, seen,
             IF deps[j] \notin seen THEN Append(next, deps[j]) ELSE next)

\* the loop without the test of lines 327-328: a visited package is printed again
RECURSIVE RenderLevelNoSkip(_, _, _, _, _)
RenderLevelNoSkip(q, k, g, pre, st) ==
    IF k > Len(q) THEN st
    ELSE LET package == q[k]
             seen == st.visited \cup {package}
             connector == Connector(k - 1, Len(q))
         IN IF package \in DOMAIN g
            THEN RenderLevelNoSkip(q, k + 1, g, pre,
                     [visited |-> seen,
                      lines |-> Append(st.lines,
                                   [prefix |-> pre, connector |-> connector,
                                    package |-> package,
                                    label |-> g[package].version]),
                      next |-> AppendUnvisited(g[package].dependencies, 1,
                                               seen, st.next)])
            ELSE RenderLevelNoSkip(q, k + 1, g, pre,
                     [visited |-> seen,
                      lines |-> Append(st.lines,
                                   [prefix |-> pre, connector |-> connector,
                                    package |-> package,
                                    label |-> Unexpanded]),
                      next |-> st.next])

\* the for loop of lines 326-344 over queue[k..] (k is 1-based, i = k - 1)
RECURSIVE RenderLevel(_, _, _, _, _)
RenderLevel(q, k, g, pre, st) ==
    IF k > Len(q) THEN st
    ELSE LET package == q[k] IN
         IF package \in st.visited
         THEN RenderLevel(q, k + 1, g, pre, st)
         ELSE LET seen == st.visited \cup {package}
                  connector == Connector(k - 1, Len(q))
              IN IF package \in DOMAIN g
                 THEN RenderLevel(q, k + 1, g, pre,
                          [visited |-> seen,
                           lines |-> Append(st.lines,
                                        [prefix |-> pre, connector |-> connector,
                                         package |-> package,
                                         label |-> g[package].version]),
                           next |-> AppendUnvisited(g[package].dependencies, 1,
                                                    seen, st.next)])
                 ELSE RenderLevel(q, k + 1, g, pre,
                          [visited |-> seen,
                           lines |-> Append(st.lines,
                                        [prefix |-> pre, connector |-> connector,
                                         package |-> package,
                                         label |-> Unexpanded]),
                           next |-> st.next])

\* print_ascii_tree: queue = deque([package]), prefix "", a fresh visited set
print_ascii_tree ==
    /\ pc = "built"
    /\ rqueue' = <<args.package>>
    /\ prefix' = 0
    /\ rvisited' = {}
    /\ lines' = <<>>
    /\ pc' = "print"
    /\ UNCHANGED <<env, buildvars>>

\* print_ascii_tree_bfs_recursive, one call: print the level, then recurse on
\* the next level when it has entries and return otherwise
print_ascii_tree_bfs_recursive ==
    /\ pc = "print"
    /\ rqueue # <<>>
    /\ LET st == RenderLevel(rqueue, 1, dependency_graph, prefix,
                             [visited |-> rvisited, lines |-> lines, next |-> <<>>])
       IN /\ lines' = st.lines
          /\ rvisited' = st.visited
          /\ IF st.next # <<>>
             THEN /\ rqueue' = st.next
                  /\ prefix' = prefix + PrefixUnit
                  /\ pc' = "print"
             ELSE /\ rqueue' = <<>>
                  /\ prefix' = prefix
                  /\ pc' = "done"
    /\ UNCHANGED <<env, buildvars>>

Next ==
    \/ build_dependency_graph_bfs
    \/ BuildReturn
    \/ BuildTruncate
    \/ BuildExpand
    \/ BuildFail
    \/ print_ascii_tree
    \/ print_ascii_tree_bfs_recursive

Spec == Init /\ [][Next]_vars

\* the program is sequential and always takes its next step
FairSpec == Spec /\ WF_vars(Next)

(***************************************************************************)
(* The manifest as a graph: what the properties are stated against.        *)
(***************************************************************************)
Deps(p) == Range(source[p])

\* the packages at most d edges away from those of S
RECURSIVE Within(_, _)
Within(S, d) ==
    IF d = 0 THEN S
    ELSE LET W == Within(S, d - 1) IN W \cup UNION {Deps(p) : p \in W}

\* everything reachable from S (no path without repetition is longer than
\* the number of packages)
Reachable(S) == Within(S, Cardinality(Packages))

\* the greatest distance from the root to a package reachable from it
Diameter(root) ==
    CHOOSE d \in 0..Cardinality(Packages) :
        /\ Within({root}, d) = Reachable({root})
        /\ \A e \in 0..(d - 1) : Within({root}, e) # Reachable({root})

Acyclic == \A p \in Packages : p \notin Reachable(Deps(p))

Keys == DOMAIN dependency_graph
Finished == pc \in {"built", "print", "done"}
Root == args.package

(***************************************************************************)
(* C1  Closure.  For an acyclic manifest whose lookups all succeed and a   *)
(* depth argument of at least the diameter from the root, the finished     *)
(* build has exactly the packages reachable from the root as keys, and     *)
(* each of them was taken from the queue and looked up exactly once.       *)
(***************************************************************************)
C1_Closure ==
    (/\ Finished
     /\ Acyclic
     /\ failing \cap Reachable({Root}) = {}
     /\ args.depth >= Diameter(Root))
    => /\ Keys = Reachable({Root})
       /\ \A p \in Reachable({Root}) :
             /\ dequeued[p] = 1
             /\ fetched[p] = 1
             /\ dependency_graph[p].dependencies = source[p]
       /\ \A p \in Packages \ Reachable({Root}) : dequeued[p] = 0

\* the diamond, where D is declared by two packages, built completely
C1_Witness ==
    /\ pc = "built"
    /\ source = DiamondManifest
    /\ failing = {}
    /\ args.depth >= Diameter(Root)
    /\ Keys = {"A", "B", "C", "D"}
    /\ dequeued["D"] = 1

(***************************************************************************)
(* C2  Depth truncation.  A step that takes a package of depth greater     *)
(* than the depth argument from the queue adds no key to the graph and     *)
(* queues nothing; and the chain A->B->C->D->E built from A with depth 2   *)
(* ends with the keys A, B, C, with D as the dependency of C.              *)
(***************************************************************************)
C2_TruncatedStep ==
    (/\ pc = "build"
     /\ queue # <<>>
     /\ Head(queue)[2] > args.depth)
    => /\ dependency_graph' = dependency_graph
       /\ queue' = Tail(queue)
       /\ visited' = visited

C2_ChainResult ==
    (/\ Finished
     /\ source = ChainManifest
     /\ Root = "A"
     /\ args.depth = 2
     /\ failing = {})
    => /\ Keys = {"A", "B", "C"}
       /\ dependency_graph["C"].dependencies = <<"D">>
       /\ "D" \notin Keys
       /\ "E" \notin Keys

C2_DepthTruncation == [][C2_TruncatedStep]_vars /\ []C2_ChainResult

\* the chain cut at depth 2: D was taken from the queue and only warned about
C2_Witness ==
    /\ pc = "built"
    /\ source = ChainManifest
    /\ args.depth = 2
    /\ failing = {}
    /\ dequeued["D"] = 1
    /\ \E i \in DOMAIN out : out[i].kind = "depth" /\ out[i].package = "D"

(***************************************************************************)
(* C3  Partial-failure tolerance.  When the lookup of a package fails      *)
(* during the build, in either source mode, the finished build has the     *)
(* failed package as a key with no dependencies and every other package    *)
(* within the depth with its declared dependencies.                        *)
(***************************************************************************)
C3_PartialFailure ==
    (/\ Finished
     /\ \E f \in failing : fetched[f] = 1)
    => /\ \A f \in failing :
             fetched[f] = 1 =>
                 /\ f \in Keys
                 /\ dependency_graph[f].dependencies = <<>>
       /\ \A p \in Within({Root}, args.depth) \ failing :
             /\ p \in Keys
             /\ dependency_graph[p].dependencies = source[p]

(***************************************************************************)
(* C4  Cycle property.  For A -> {B}, B -> {A} built from A with a depth   *)
(* of at least 1, the build reports a cycle between A and B, looks A and   *)
(* B up once each and ends with the keys A and B.                          *)
(***************************************************************************)
MutualManifest ==
    [p \in Packages |->
        CASE p = "A" -> <<"B">>
          [] p = "B" -> <<"A">>
          [] OTHER   -> <<>>]

CycleReported(package, dep) ==
    \E i \in DOMAIN out :
        out[i].kind = "cycle" /\ out[i].package = package /\ out[i].dep = dep

C4_CycleProperty ==
    (/\ Finished
     /\ source = MutualManifest
     /\ Root = "A"
     /\ args.depth >= 1
     /\ failing = {})
    => /\ CycleReported("A", "B") \/ CycleReported("B", "A")
       /\ dequeued["A"] = 1 /\ fetched["A"] = 1
       /\ dequeued["B"] = 1 /\ fetched["B"] = 1
       /\ Keys = {"A", "B"}

C4_Witness ==
    /\ pc = "built"
    /\ source = MutualManifest
    /\ Root = "A"
    /\ args.depth >= 1
    /\ failing = {}
    /\ CycleReported("B", "A")

(***************************************************************************)
(* C5  Build totality.  Whatever the manifest, the failing lookups and the *)
(* depth argument, the build eventually returns with an empty queue, every *)
(* queued package having been taken from the queue.                        *)
(***************************************************************************)
BuildReturned ==
    /\ pc = "built"
    /\ queue = <<>>
    /\ \A p \in Packages : dequeued[p] = enqueued[p]

C6_AtMostOnce ==
    \A p \in Packages : enqueued[p] <= 1 /\ dequeued[p] <= 1 /\ fetched[p] <= 1

C6_EntriesKept ==
    \A p \in Keys : p \in DOMAIN dependency_graph' /\ dependency_graph'[p] = dependency_graph[p]

C6_FetchOnce == []C6_AtMostOnce /\ [][C6_EntriesKept]_vars

\* a finished build with a package declared by two stored packages, and a
\* package that declares itself
C6_Witness ==
    /\ pc = "built"
    /\ \E p \in Keys :
          /\ Cardinality({q \in Keys : p \in Range(dependency_graph[q].dependencies)}) >= 2
          /\ fetched[p] = 1
    /\ \E p \in Keys : p \in Range(dependency_graph[p].dependencies)

(***************************************************************************)
(* C7  Rendering termination.  print_ascii_tree ends after finitely many   *)
(* lines on every graph, cyclic or not, and no package is printed a second *)
(* time: the printer has no "(cyclic reference)" line, so in particular a  *)
(* package open on the current path is never printed again.                *)
(***************************************************************************)
C7_NoRepeat ==
    /\ Len(lines) <= Cardinality(Packages)
    /\ \A i, j \in DOMAIN lines : i # j => lines[i].package # lines[j].package
    /\ \A i \in DOMAIN lines :
          lines[i].label \in {DefaultVersion, UnknownVersion, Unexpanded}

C7_RenderingTermination == <>(pc = "done") /\ []C7_NoRepeat

\* the tree of a graph with a cycle through the root, printed to the end
C7_Witness ==
    /\ pc = "done"
    /\ Root \in Keys
    /\ Root \in Reachable(Deps(Root))
    /\ \A p \in Reachable({Root}) : p \in Keys
    /\ Len(lines) = 3

(***************************************************************************)
(* The reverse graph.  The builder assigns self.dependency_graph and       *)
(* self.visited and nothing else: the instance holds no reverse edges.     *)
(***************************************************************************)
reverse_graph == [d \in {} |-> <<>>]

\* findDependents of the specification, section 4.2: the transitive closure
\* of the reverse edges from target, guarded by a visited set
RECURSIVE DependentsClosure(_, _)
DependentsClosure(S, rg) ==
    LET N == S \cup UNION {Range(rg[d]) : d \in S \cap DOMAIN rg}
    IN IF N = S THEN S ELSE DependentsClosure(N, rg)

findDependents(target, rg) == DependentsClosure({target}, rg) \ {target}

\* the stored packages from which X is reached along stored edges
RECURSIVE StoredReach(_)
StoredReach(S) ==
    LET N == S \cup UNION {Range(dependency_graph[p].dependencies) : p \in S \cap Keys}
    IN IF N = S THEN S ELSE StoredReach(N)

ForwardAncestors(X) == {p \in Keys : X \in StoredReach({p})} \ {X}

(***************************************************************************)
(* C8  Reverse-closure duality.  The finished build holds, for every       *)
(* stored edge P -> D, the reverse edge D -> P; for an acyclic manifest    *)
(* findDependents(X) is the set of forward ancestors of X without X; and   *)
(* for the diamond findDependents(D) = {A, B, C}.                          *)
(***************************************************************************)
C8_ReverseClosureDuality ==
    Finished =>
        /\ \A P \in Keys : \A D \in Range(dependency_graph[P].dependencies) :
              /\ D \in DOMAIN reverse_graph
              /\ P \in Range(reverse_graph[D])
        /\ Acyclic =>
              \A X \in Keys : findDependents(X, reverse_graph) = ForwardAncestors(X)
        /\ (source = DiamondManifest /\ failing = {} /\ args.depth >= 2) =>
              findDependents("D", reverse_graph) = {"A", "B", "C"}

(***************************************************************************)
(* C9  Cycles of any length.  Whenever an expanded package P declares a    *)
(* dependency that is P itself or an ancestor of P on the path from the    *)
(* root, a cycle is reported for that edge and the edge queues nothing.    *)
(***************************************************************************)
RECURSIVE PathFromRoot(_)
PathFromRoot(p) ==
    IF parent[p] = p THEN {p} ELSE {p} \cup PathFromRoot(parent[p])

C9_CycleDetection ==
    Finished =>
        \A P \in Keys \cap DOMAIN parent :
            \A D \in Range(dependency_graph[P].dependencies) :
                D \in PathFromRoot(P) =>
                    /\ CycleReported(P, D)
                    /\ enqueued[D] <= 1

(***************************************************************************)
(* C10  Connector discipline.  In the printed tree the last line of every  *)
(* level has the terminal connector and every earlier line of the level    *)
(* the branch connector, and the prefix of level n is n units long.        *)
(***************************************************************************)
LastOfLevel(i) == \A j \in DOMAIN lines : j > i => lines[j].prefix # lines[i].prefix

C10_ConnectorDiscipline ==
    pc = "done" =>
        /\ \A i \in DOMAIN lines :
              lines[i].connector = IF LastOfLevel(i) THEN LastConnector ELSE TeeConnector
        /\ \A i \in DOMAIN lines : \E n \in 0..Cardinality(Packages) :
              lines[i].prefix = n * PrefixUnit
        /\ \A i \in DOMAIN lines : i > 1 =>
              lines[i].prefix \in {lines[i - 1].prefix, lines[i - 1].prefix + PrefixUnit}

(***************************************************************************)
(* A second build on the same instance.  build_dependency_graph_bfs only   *)
(* adds to self.visited and self.dependency_graph: what an earlier call    *)
(* left there is still there.                                              *)
(***************************************************************************)

\* build_dependency_graph_bfs(start_package, args) on an instance whose first
\* build has returned, with the same args and any start package
build_dependency_graph_bfs_again ==
    /\ pc = "built"
    /\ builds = 1
    /\ \E start_package \in GenPackages :
          /\ args' = [args EXCEPT !.package = start_package]
          /\ queue' = <<<<start_package, 0>>>>
          /\ visited' = visited \cup {start_package}
          /\ enqueued' = Inc(enqueued, start_package)
          /\ parent' = (start_package :> start_package) @@ parent
    /\ builds' = builds + 1
    /\ pc' = "build"
    /\ UNCHANGED <<source, failing, dependency_graph, out, dequeued, fetched, printvars>>

ReuseNext ==
    \/ build_dependency_graph_bfs
    \/ BuildReturn
    \/ BuildTruncate
    \/ BuildExpand
    \/ BuildFail
    \/ build_dependency_graph_bfs_again

ReuseSpec == Init /\ [][ReuseNext]_vars

\* the whole recursion of build_dependency_graph_bfs_recursive from a given
\* graph, visited set and queue: the graph it leaves
RECURSIVE BuildRun(_, _, _)
BuildRun(g, vis, q) ==
    IF q = <<>> THEN g
    ELSE LET current_package == Head(q)[1]
             depth == Head(q)[2]
             package_info == get_package_info(current_package)
             g2 == StoreEntry(g, current_package, package_info)
             st == ProcessDeps(package_info.dependencies, 1, g2, current_package, depth,
                               [visited |-> vis, queue |-> Tail(q), out |-> <<>>,
                                enqueued |-> Zero, parent |-> <<>>])
         IN IF DepthExceeded(depth, args.depth) THEN BuildRun(g, vis, Tail(q))
            ELSE IF ~package_info.ok THEN BuildRun(g, vis, Tail(q))
            ELSE BuildRun(g2, st.visited, st.queue)

\* DependencyVisualizer().build_dependency_graph_bfs(start_package, args)
FreshGraph(start_package) ==
    BuildRun(<<>>, {start_package}, <<<<start_package, 0>>>>)

(***************************************************************************)
(* C11  Per-invocation traversal context.  A build on an instance that has *)
(* already completed a build, from the same or another root, leaves for    *)
(* every package the entry a build from that root on a fresh instance      *)
(* leaves.                                                                 *)
(***************************************************************************)
C11_SameAsFresh ==
    (pc = "built" /\ builds = 2)
    => \A p \in DOMAIN FreshGraph(Root) :
          /\ p \in Keys
          /\ dependency_graph[p] = FreshGraph(Root)[p]

(***************************************************************************)
(* C12  Shortest-distance expansion.  With a source that never fails, the  *)
(* depths in the queue never decrease, every queued package carries its    *)
(* shortest distance from the root, and the finished build has as keys     *)
(* exactly the packages whose shortest distance is at most the depth       *)
(* argument, for cyclic manifests as well.                                 *)
(***************************************************************************)
Dist(root, p) ==
    CHOOSE d \in 0..Cardinality(Packages) :
        /\ p \in Within({root}, d)
        /\ d > 0 => p \notin Within({root}, d - 1)

C12_ShortestDistance ==
    (failing \cap Reachable({Root}) = {})
    => /\ \A i \in DOMAIN queue :
             /\ queue[i][1] \in Reachable({Root})
             /\ queue[i][2] = Dist(Root, queue[i][1])
       /\ \A i, j \in DOMAIN queue : i < j => queue[i][2] <= queue[j][2]
       /\ Finished =>
             /\ Keys = Within({Root}, args.depth)
             /\ \A p \in Keys : dependency_graph[p].dependencies = source[p]

\* a cyclic manifest where a package stored at the depth argument is also
\* declared by another package at that depth: its longer path is one too long
C12_Witness ==
    /\ pc = "built"
    /\ failing = {}
    /\ ~Acyclic
    /\ \E p, q \in Keys :
          /\ p # q
          /\ Dist(Root, p) = args.depth
          /\ Dist(Root, q) = args.depth
          /\ p \in Deps(q)

=============================================================================
